---- MODULE Spec2Model ----
(***************************************************************************)
(* Plugin execution engine of Series-diff.                                 *)
(*                                                                         *)
(*   Flask-API/services/plugin_service.py      validate / execute          *)
(*   Flask-API/services/sandboxed_executor.py  SandboxedExecutor           *)
(*   Flask-API/main.py                         /api/plugins/execute        *)
(*   infra/lambda/plugin_executor/handler.py   batch run harness           *)
(*   Flask-API/gunicorn_config.py              threaded workers            *)
(*   infra/modules/ecs.py                      PLUGIN_EXECUTOR_LAMBDA      *)
(*                                                                         *)
(* Python values are modelled as records: a dict is the record of its      *)
(* keys, wrapped as [py |-> "dict", d |-> record]; a call either returns   *)
(* a value or raises.  A text is a sequence of word tokens plus the number *)
(* of characters of foreign text (stderr, stdout, str(e)) embedded in it,  *)
(* so that "the message contains 'timed out'" is a real subsequence test.  *)
(***************************************************************************)
EXTENDS Integers, Sequences, FiniteSets, TLC

VARIABLES
    executor,   \* sandboxed_executor._executor: the process-wide singleton
    call,       \* the request in progress/just answered, with its effects
    environ,    \* os.environ of the server process
    containers, \* the containers that exist on the docker host
    instances,  \* how many SandboxedExecutor instances this process has built,
                \* and which of them _executor refers to (0: None)
    threads,    \* the request threads of the process, each with its
                \* position inside get_executor() or execute()
    files       \* the temporary files that exist on the host

vars == <<executor, call, environ, containers, instances, threads, files>>

-----------------------------------------------------------------------------
(* Bounds of the model *)

MaxPairs == 2
NumThreads == 2
MaxFiles == 3
NumWorkers == 2

(* Program constants *)

TIMEOUT_SECONDS == 30
ExcerptLimit == 200
MEMORY_LIMIT == "128m"
CPU_LIMIT == "0.5"

-----------------------------------------------------------------------------
(* Texts *)

Min(a, b) == IF a < b THEN a ELSE b

Text(words, n) == [words |-> words, embedded |-> n]

\* Python's `pat in text` on the word level: pat occurs as a contiguous run.
Contains(text, pat) ==
    \E i \in 0..(Len(text.words) - Len(pat)) :
        \A j \in 1..Len(pat) : text.words[i + j] = pat[j]

-----------------------------------------------------------------------------
(* Python values and call outcomes *)

PyDict(d) == [py |-> "dict", d |-> d]
PyOther(t) == [py |-> t, d |-> [none |-> TRUE]]

Returns(v) == [how |-> "returns", v |-> v]
Raises(e) == [how |-> "raises", v |-> PyOther(e)]

Err(text) == PyDict([error |-> text])

IsDict(v) == v.py = "dict"
HasKey(v, k) == IsDict(v) /\ k \in DOMAIN v.d

Num(t, x) == [type |-> t, val |-> x]

-----------------------------------------------------------------------------
(* Plugin source.  A source text is described by what the code under test  *)
(* reads from it: which denylist patterns occur in it in any letter case   *)
(* (pats) and which of those spelled as in the list (verbatim), whether    *)
(* the literal "def calculate(" occurs, whether the text is well-formed    *)
(* Python apart from its layout (parses), whether its lines start at       *)
(* column 0 or share a leading indentation (layout), and what evaluating   *)
(* it does.                                                                *)

dangerous_patterns ==
    << "open(", "open (", "file(", "with open",
       "import os", "from os", "import sys", "from sys",
       "import subprocess", "from subprocess", "import shutil", "from shutil",
       "import socket", "from socket", "import requests", "from requests",
       "import urllib", "from urllib",
       "exec(", "exec (", "eval(", "eval (", "__import__", "importlib",
       "__class__", "__bases__", "__subclasses__", "__globals__", "__code__",
       "__builtins__",
       "os.system", "os.popen", "subprocess.", "commands.", "popen" >>

\* Samples of the set of patterns a source contains:
\* none; "import os"; "with open(" (which contains "open(" as well).
PatternSets == { {}, {5}, {1, 4} }

\* What exec(code, namespace) does: binds calculate ("ok"), ends without
\* binding it ("unbound"), raises an Exception ("raises"), or raises a
\* BaseException that `except Exception` does not catch, such as
\* SystemExit ("exit").
RunKinds == {"ok", "unbound", "raises", "exit"}

Layouts == {"flush", "indented"}

\* compile(code, "<plugin>", "exec"): text whose first statement is indented
\* is an IndentationError, a SyntaxError.
Compiles(code) == code.parses /\ code.layout = "flush"

Codes ==
    { c \in [pats : PatternSets, verbatim : SUBSET (1..5), hasDef : BOOLEAN,
              parses : BOOLEAN, layout : Layouts, run : RunKinds] :
        /\ c.verbatim \in {c.pats, {}}
        /\ ~Compiles(c) => c.run = "raises" }

NoCode ==
    [pats |-> {}, verbatim |-> {}, hasDef |-> FALSE, parses |-> FALSE,
     layout |-> "flush", run |-> "none"]

\* 'def calculate(series1, series2): return 0'
MinimalPlugin ==
    [pats |-> {}, verbatim |-> {}, hasDef |-> TRUE, parses |-> TRUE,
     layout |-> "flush", run |-> "ok"]

\* 'import os\ndef calculate(s1, s2): return 0'
ImportOsPlugin == [MinimalPlugin EXCEPT !.pats = {5}, !.verbatim = {5}]

\* A source that does not compile raises SyntaxError when evaluated.
ExecOutcome(code) == IF Compiles(code) THEN code.run ELSE "raises"

\* code.lower(): every occurrence of a pattern is now spelled as in the list
\* (the patterns of the list are all lower case).
lower(code) == [code EXCEPT !.verbatim = code.pats]

\* dangerous_patterns[i] in code: Python's substring test, case-sensitive
PatternIn(i, code) == i \in code.verbatim

\* The first pattern of the list that the loop finds in the text.
FirstPattern(code) ==
    dangerous_patterns[CHOOSE i \in code.verbatim : \A j \in code.verbatim : i <= j]

-----------------------------------------------------------------------------
(* plugin_service.validate_plugin_code *)

\* validate_plugin_code with the denylist matched against the text as
\* written instead of code.lower().
validate_case_sensitive(code) ==
    IF \E i \in DOMAIN dangerous_patterns : PatternIn(i, code)
    THEN [valid |-> FALSE,
          error |-> Text(<<"Forbidden", "pattern", "detected", ":",
                           FirstPattern(code), ".", "Plugins", "cannot",
                           "access", "system", "resources", ".">>, 0)]
    ELSE IF ~code.hasDef
    THEN [valid |-> FALSE,
          error |-> Text(<<"Plugin", "must", "define", "a",
                           "calculate(series1, series2)", "function">>, 0)]
    ELSE IF ~Compiles(code)
    THEN [valid |-> FALSE,
          error |-> Text(<<"Syntax", "error", "in", "plugin", "code", ":">>, 1)]
    ELSE [valid |-> TRUE]

\* validate_plugin_code with the checks in another order: the parse first,
\* then the presence of calculate, then the denylist with the last match
\* reported.
validate_parse_first(code) ==
    IF ~Compiles(code)
    THEN [valid |-> FALSE,
          error |-> Text(<<"Syntax", "error", "in", "plugin", "code", ":">>, 1)]
    ELSE IF ~code.hasDef
    THEN [valid |-> FALSE,
          error |-> Text(<<"Plugin", "must", "define", "a",
                           "calculate(series1, series2)", "function">>, 0)]
    ELSE IF \E i \in DOMAIN dangerous_patterns : PatternIn(i, lower(code))
    THEN [valid |-> FALSE,
          error |-> Text(<<"Forbidden", "pattern", "detected", ":",
                           FirstPattern(lower(code)), ".", "Plugins", "cannot",
                           "access", "system", "resources", ".">>, 0)]
    ELSE [valid |-> TRUE]

validate_plugin_code(code) ==
    IF \E i \in DOMAIN dangerous_patterns : PatternIn(i, lower(code))
    THEN [valid |-> FALSE,
          error |-> Text(<<"Forbidden", "pattern", "detected", ":",
                           FirstPattern(lower(code)), ".", "Plugins", "cannot",
                           "access", "system", "resources", ".">>, 0)]
    ELSE IF ~code.hasDef
    THEN [valid |-> FALSE,
          error |-> Text(<<"Plugin", "must", "define", "a",
                           "calculate(series1, series2)", "function">>, 0)]
    ELSE IF ~Compiles(code)
    THEN [valid |-> FALSE,
          error |-> Text(<<"Syntax", "error", "in", "plugin", "code", ":">>, 1)]
    ELSE [valid |-> TRUE]

-----------------------------------------------------------------------------
(* What a call did besides returning: docker-run subprocesses it started,  *)
(* remote invocations it made, whether it evaluated the plugin source in   *)
(* the calling process, on how many pairs calculate was invoked, and       *)
(* whether it left a file behind on the host.                              *)

Effect(ret, runs, inproc, tmp_left) ==
    [ret |-> ret, runs |-> runs, inproc |-> inproc, tmp_left |-> tmp_left]

-----------------------------------------------------------------------------
(* What calculate(series1, series2) does on one pair: returns a Python     *)
(* int, a Python float, a numpy integer, a numpy floating, a non-number    *)
(* (here a str), raises an Exception, or raises a BaseException that       *)
(* `except Exception` does not catch (SystemExit, KeyboardInterrupt).      *)

CalcKinds == {"int", "float", "npint", "npfloat", "str", "raise", "exit"}

\* isinstance(result, (int, float)): numpy.float64 subclasses float,
\* numpy integers do not subclass int.
IsIntOrFloat(kind) == kind \in {"int", "float", "npfloat"}

\* type(result).__name__
TypeName(kind) == IF kind = "npint" THEN "int64" ELSE kind

-----------------------------------------------------------------------------
(* The isolation boundary as the engine sees it: what subprocess.run of    *)
(* `docker run` does.  The container's output is whatever the harness and  *)
(* the plugin wrote, so it is an input of the model.                       *)

DocResults == PyDict([results |-> << [key |-> "a|b", result |-> Num("float", 3)] >>])
DocError == Err(Text(<<"Plugin", "must", "define", "calculate", "function">>, 0))
DocResult == PyDict([result |-> Num("float", 3)])
DocOther == PyDict([foo |-> TRUE])
DocNumber == PyOther("int")

\* stdout after strip(): empty, text json.loads rejects, or one JSON document.
Stdouts ==
    { [shape |-> "empty", doc |-> DocNumber, len |-> 0],
      [shape |-> "text", doc |-> DocNumber, len |-> 5],
      [shape |-> "text", doc |-> DocNumber, len |-> 250] }
    \cup { [shape |-> "json", doc |-> d, len |-> 20] :
             d \in {DocResults, DocError, DocResult, DocOther, DocNumber} }

\* length of stderr after strip()
StderrLens == {0, 5, 250}

\* container: the state of the container at the moment subprocess.run
\* returns or raises.  `docker run` returns when the container has exited;
\* on TimeoutExpired subprocess.run kills the `docker run` client only
\* (SIGKILL, which the client cannot forward), so the container goes on
\* until the plugin ends: it is still running, or it has just exited.
Boundaries ==
    { [kind |-> "timeout", rc |-> 0, stdout |-> CHOOSE s \in Stdouts : s.shape = "empty",
       stderr |-> 0, container |-> c] : c \in {"running", "exited"} }
    \cup { [kind |-> "exception", rc |-> 0, stdout |-> CHOOSE s \in Stdouts : s.shape = "empty",
             stderr |-> 0, container |-> "exited"] }
    \cup [kind : {"completed"}, rc : {0, 1}, stdout : Stdouts, stderr : StderrLens,
          container : {"exited"}]

\* The host's temporary-file operations of one call.
Hosts == [tmp_create : {"ok", "fails"}, unlink : {"ok", "fails"}]

-----------------------------------------------------------------------------
(* SandboxedExecutor.__init__ and _check_docker_available *)

\* outcomes of subprocess.run(["docker", "version"], timeout=5)
Probes == {"rc0", "rc_nonzero", "timeout", "not_found", "other_exception"}

NoExecutor == [constructed |-> FALSE, docker_available |-> FALSE]

\* What _check_docker_available leaves in self.docker_available, or the
\* exception it lets through: only TimeoutExpired and FileNotFoundError
\* are caught.
_check_docker_available(probe) ==
    CASE probe = "rc0" -> [how |-> "returns", docker_available |-> TRUE]
      [] probe \in {"rc_nonzero", "timeout", "not_found"} ->
            [how |-> "returns", docker_available |-> FALSE]
      [] OTHER -> [how |-> "raises", docker_available |-> FALSE]

\* The commands __init__ runs on the host, in order: the probe of
\* _check_docker_available and nothing after it.
ConstructionCommands(probe) == << <<"docker", "version">> >>

\* The functions the module registers with atexit: it does not import
\* atexit and registers none.
AtExit == {}

\* The constructor: the new instance, or the exception it lets through.
SandboxedExecutor(probe) ==
    LET checked == _check_docker_available(probe)
    IN  IF checked.how = "returns"
        THEN Returns([constructed |-> TRUE, docker_available |-> checked.docker_available])
        ELSE [how |-> "raises", v |-> NoExecutor]

\* get_executor(): the singleton, constructed on first use.
get_executor(ex, probe) ==
    IF ex.constructed THEN Returns(ex) ELSE SandboxedExecutor(probe)

-----------------------------------------------------------------------------
(* SandboxedExecutor._execute_in_docker *)

Opt(o, v) == [opt |-> o, val |-> v]

\* The options of `docker run` in docker_cmd, up to the image name; an
\* option without a value has the value "".
docker_cmd ==
    << Opt("--rm", ""),
       Opt("--network", "none"),
       Opt("--read-only", ""),
       Opt("--memory", MEMORY_LIMIT),
       Opt("--cpus", CPU_LIMIT),
       Opt("--pids-limit", "50"),
       Opt("--security-opt", "no-new-privileges"),
       Opt("-i", ""),
       Opt("-v", "executor_path:/executor.py:ro") >>

\* The container `docker run` creates from a command: its labels are the
\* values of the command's --label options.
Container(by, cmd) ==
    [by |-> by,
     labels |-> { cmd[i].val : i \in { j \in DOMAIN cmd : cmd[j].opt = "--label" } }]

DockerBody(b) ==
    CASE b.kind = "timeout" ->
            Err(Text(<<"Execution", "timed", "out", "after", ToString(TIMEOUT_SECONDS), "seconds">>, 0))
      [] b.kind = "exception" ->
            Err(Text(<<"Execution", "error", ":">>, 1))
      [] OTHER ->
            IF b.rc # 0 /\ b.stderr > 0
            THEN Err(Text(<<"Execution", "failed", ":">>, Min(b.stderr, ExcerptLimit)))
            ELSE IF b.stdout.shape = "empty"
            THEN Err(Text(<<"No", "output", "from", "plugin">>, 0))
            ELSE IF b.stdout.shape = "json"
            THEN b.stdout.doc
            ELSE Err(Text(<<"Invalid", "plugin", "output", ":">>,
                          Min(b.stdout.len, ExcerptLimit)))

\* The except clause for TimeoutExpired logs and returns the message: it
\* issues no `docker kill` and no `docker rm`, so the container is left in
\* the state the boundary left it in.
LeftRunning(b) == b.container = "running"

\* _execute_in_docker running the container a second time when the first
\* run timed out.
_execute_in_docker_retry(code, b, host) ==
    IF host.tmp_create = "fails"
    THEN Effect(Raises("OSError"), 0, FALSE, FALSE)
    ELSE IF host.unlink = "fails"
    THEN Effect(Raises("OSError"), 1, FALSE, TRUE)
    ELSE Effect(Returns(DockerBody(b)), IF b.kind = "timeout" THEN 2 ELSE 1, FALSE, FALSE)

\* The temporary file is created before the try block and removed in its
\* finally clause: a failure of either leaves the method as an exception.
_execute_in_docker(code, b, host) ==
    IF host.tmp_create = "fails"
    THEN Effect(Raises("OSError"), 0, FALSE, FALSE)
    ELSE IF host.unlink = "fails"
    THEN Effect(Raises("OSError"), 1, FALSE, TRUE)
    ELSE Effect(Returns(DockerBody(b)), 1, FALSE, FALSE)

-----------------------------------------------------------------------------
(* SandboxedExecutor._execute_basic_sandbox and _execute_restricted: the   *)
(* paths execute takes when docker_available is false.  Both evaluate the  *)
(* plugin source with exec() in the calling process.                       *)

\* namespace["calculate"](s1, s2) and the conversion of its result, with
\* the wording of the "Result must be ..." message as a parameter.
CallCalculate(calc, must_be) ==
    CASE calc = "exit" -> Raises("SystemExit")
      [] calc = "raise" -> Returns(Err(Text(<<"Calculation", "error", ":">>, 1)))
      [] IsIntOrFloat(calc) -> Returns(PyDict([result |-> Num("float", 3)]))
      [] OTHER -> Returns(Err(Text(must_be \o <<TypeName(calc)>>, 0)))

\* exec(...) of the source, then the lookup and the call of calculate.
ExecInProcess(code, calc, must_be) ==
    CASE ExecOutcome(code) = "exit" -> Raises("SystemExit")
      [] ExecOutcome(code) = "raises" ->
            Returns(Err(Text(<<"Execution", "error", ":">>, 1)))
      [] ExecOutcome(code) = "unbound" ->
            Returns(Err(Text(<<"Plugin", "must", "define", "calculate", "function">>, 0)))
      [] OTHER -> CallCalculate(calc, must_be)

_execute_basic_sandbox(code, calc) ==
    IF \E i \in DOMAIN dangerous_patterns : PatternIn(i, lower(code))
    THEN Effect(Returns(Err(Text(<<"Forbidden", "pattern", ":", FirstPattern(lower(code)), ".",
                                   "Plugins", "cannot", "access", "system",
                                   "resources", ".">>, 0))), 0, FALSE, FALSE)
    ELSE IF ~code.hasDef
    THEN Effect(Returns(Err(Text(<<"Plugin", "must", "define",
                                   "calculate(series1, series2)", "function">>, 0))),
                0, FALSE, FALSE)
    ELSE Effect(ExecInProcess(code, calc, <<"Result", "must", "be", "number", ",", "got">>),
                0, Compiles(code), FALSE)

\* restricted_python: whether `from RestrictedPython import ...` succeeds.
_execute_restricted(code, calc, restricted_python) ==
    IF ~restricted_python
    THEN _execute_basic_sandbox(code, calc)
    ELSE IF ~Compiles(code)
    THEN Effect(Returns(Err(Text(<<"Syntax", "error", ":">>, 1))), 0, FALSE, FALSE)
    ELSE Effect(ExecInProcess(code, calc,
                              <<"Result", "must", "be", "a", "number", ",", "got">>),
                0, TRUE, FALSE)

-----------------------------------------------------------------------------
(* SandboxedExecutor.execute(code, series1, series2) *)

\* env: everything outside the engine one call depends on.  Only what the
\* chosen path consumes is varied.
NoBoundary == CHOOSE b \in Boundaries : b.kind = "timeout" /\ b.container = "exited"
HostOk == [tmp_create |-> "ok", unlink |-> "ok"]

EnvsFor(ex) ==
    IF ex.docker_available
    THEN { [boundary |-> b, host |-> h, restricted_python |-> FALSE, calc |-> "int"] :
             b \in Boundaries, h \in { x \in Hosts : x.tmp_create = "ok" } }
         \cup { [boundary |-> NoBoundary, host |-> [tmp_create |-> "fails", unlink |-> "ok"],
                 restricted_python |-> FALSE, calc |-> "int"] }
    ELSE { [boundary |-> NoBoundary, host |-> HostOk, restricted_python |-> r, calc |-> c] :
             r \in BOOLEAN, c \in CalcKinds }

NoEnv == [boundary |-> NoBoundary, host |-> HostOk, restricted_python |-> FALSE, calc |-> "int"]

execute(ex, code, env) ==
    IF ex.docker_available
    THEN _execute_in_docker(code, env.boundary, env.host)
    ELSE _execute_restricted(code, env.calc, env.restricted_python)

-----------------------------------------------------------------------------
(* plugin_service.execute_plugin_code(code, series1, series2) *)

\* The result of the call and the singleton it leaves behind.
execute_plugin_code(ex, code, env, probe) ==
    LET validation_result == validate_plugin_code(code)
        got == get_executor(ex, probe)
    IN  IF ~validation_result.valid
        THEN [eff |-> Effect(Returns(Err(validation_result.error)), 0, FALSE, FALSE),
              ex |-> ex, probes |-> 0]
        ELSE IF got.how = "raises"
        THEN [eff |-> Effect(Raises("OSError"), 0, FALSE, FALSE), ex |-> ex, probes |-> 1]
        ELSE [eff |-> execute(got.v, code, env), ex |-> got.v,
              probes |-> IF ex.constructed THEN 0 ELSE 1]

-----------------------------------------------------------------------------
(* infra/lambda/plugin_executor/handler.py: handler(event, context), the   *)
(* batch run harness.                                                      *)

Keys == {"a|b", "b|a"}

Pairs == [key : Keys, calc : CalcKinds]

Batches == UNION { [1..n -> Pairs] : n \in 0..MaxPairs }

\* PairEntry with the append of the result moved out of the try block's
\* happy path: a non-number is recorded with both fields.
PairEntry_both(pair) ==
    CASE pair.calc = "raise" -> [key |-> pair.key, error |-> Text(<<>>, 1)]
      [] pair.calc \in {"npint", "npfloat"} ->
            [key |-> pair.key, result |-> Num("float", 3)]
      [] pair.calc = "str" ->
            [key |-> pair.key, result |-> Num("str", 3), error |-> Text(<<>>, 1)]
      [] OTHER -> [key |-> pair.key, result |-> Num(pair.calc, 3)]

\* One iteration of the loop over pairs that ends in an append.
PairEntry(pair) ==
    CASE pair.calc = "raise" -> [key |-> pair.key, error |-> Text(<<>>, 1)]
      [] pair.calc \in {"npint", "npfloat"} ->
            [key |-> pair.key, result |-> Num("float", 3)]
      [] OTHER -> [key |-> pair.key, result |-> Num(pair.calc, 3)]

\* The loop: an exception that is no Exception leaves the loop and the
\* handler; everything else appends one entry and goes on.
RECURSIVE RunPairs(_, _)
RunPairs(pairs, results) ==
    IF pairs = <<>>
    THEN [finished |-> TRUE, results |-> results]
    ELSE IF Head(pairs).calc = "exit"
    THEN [finished |-> FALSE, results |-> results]
    ELSE RunPairs(Tail(pairs), Append(results, PairEntry(Head(pairs))))

\* How many pairs calculate was invoked on.
Evaluated(code, pairs) ==
    IF ExecOutcome(code) # "ok"
    THEN 0
    ELSE LET r == RunPairs(pairs, <<>>)
         IN  IF r.finished THEN Len(pairs) ELSE Len(r.results) + 1

\* A harness that evaluates the source again before every pair.
HarnessTrace_exec_per_pair(code, pairs) ==
    <<"exec">> \o [i \in 1..(2 * Evaluated(code, pairs)) |->
                     IF i % 2 = 1 THEN "exec" ELSE "calculate"]

\* The order in which the harness evaluates things: exec(plugin_code,
\* namespace) stands before the loop, namespace["calculate"] is called once
\* for every pair the loop reaches.
HarnessTrace(code, pairs) ==
    <<"exec">> \o [i \in 1..Evaluated(code, pairs) |-> "calculate"]

\* handler whose except clause does not append: failed pairs are dropped.
handler_drops_failed(code, pairs) ==
    CASE ExecOutcome(code) = "exit" -> Raises("SystemExit")
      [] ExecOutcome(code) = "raises" ->
            Returns(Err(Text(<<"Traceback">>, 1)))
      [] ExecOutcome(code) = "unbound" ->
            Returns(Err(Text(<<"Plugin", "must", "define", "calculate", "function">>, 0)))
      [] OTHER ->
            LET r == RunPairs(pairs, <<>>)
            IN  IF r.finished
                THEN Returns(PyDict([results |->
                        SelectSeq(r.results, LAMBDA e : "result" \in DOMAIN e)]))
                ELSE Raises("SystemExit")

handler(code, pairs) ==
    CASE ExecOutcome(code) = "exit" -> Raises("SystemExit")
      [] ExecOutcome(code) = "raises" ->
            Returns(Err(Text(<<"Traceback">>, 1)))
      [] ExecOutcome(code) = "unbound" ->
            Returns(Err(Text(<<"Plugin", "must", "define", "calculate", "function">>, 0)))
      [] OTHER ->
            LET r == RunPairs(pairs, <<>>)
            IN  IF r.finished
                THEN Returns(PyDict([results |-> r.results]))
                ELSE Raises("SystemExit")

-----------------------------------------------------------------------------
(* SandboxedExecutor.EXECUTOR_TEMPLATE: the script run inside the          *)
(* container, for the one pair the engine sends it.  It prints at most one *)
(* JSON document and ends with an exit status.                             *)

Printed(doc, rc) == [printed |-> TRUE, doc |-> doc, rc |-> rc]

\* SystemExit raised by the plugin is not caught by `except Exception`:
\* the interpreter ends with the status the plugin chose (0 for a bare
\* `raise SystemExit`) and nothing is printed.
Silent == [printed |-> FALSE, doc |-> PyOther("None"), rc |-> 0]

executor_template(code, calc) ==
    CASE ExecOutcome(code) = "exit" -> Silent
      [] ExecOutcome(code) = "raises" -> Printed(Err(Text(<<>>, 1)), 1)
      [] ExecOutcome(code) = "unbound" ->
            Printed(Err(Text(<<"Plugin", "must", "define", "calculate", "function">>, 0)), 1)
      [] OTHER ->
            CASE calc = "exit" -> Silent
              [] calc = "raise" -> Printed(Err(Text(<<>>, 1)), 1)
              [] IsIntOrFloat(calc) -> Printed(PyDict([result |-> Num("float", 3)]), 0)
              [] OTHER -> Printed(Err(Text(<<"Result", "must", "be", "a", "number", ",",
                                            "got", TypeName(calc)>>, 0)), 1)

\* The order in which the script evaluates things: exec(plugin_code,
\* namespace), then one call of namespace["calculate"].
TemplateTrace(code) ==
    <<"exec">> \o (IF ExecOutcome(code) = "ok" THEN <<"calculate">> ELSE <<>>)

-----------------------------------------------------------------------------
(* main.py: POST /api/plugins/execute *)

\* _validate_plugin_request(data): what the request body looks like.
Requests == {"no_data", "missing_field", "one_filename", "ok"}

_validate_plugin_request(req) ==
    CASE req = "no_data" -> Err(Text(<<"No", "data", "provided">>, 0))
      [] req = "missing_field" -> Err(Text(<<"Missing", "required", "field", ":">>, 1))
      [] req = "one_filename" -> Err(Text(<<"At", "least", "2", "filenames", "required">>, 0))
      [] OTHER -> PyOther("None")

\* executor.execute(data["code"], pairs): execute takes (code, series1,
\* series2), so binding the two arguments raises TypeError before the body
\* of execute runs.
ExecuteWithPairs(ex, code) ==
    Effect(Raises("TypeError"), 0, FALSE, FALSE)

\* The body and status of the response, and the singleton left behind.
\* fetch: whether _fetch_series_data succeeds.
api_execute_plugin(ex, req, fetch, code, probe) ==
    LET got == get_executor(ex, probe)
        missing == Text(<<"execute()", "missing", "1", "required", "positional",
                          "argument", ":", "series2">>, 0)
    IN  IF _validate_plugin_request(req) # PyOther("None")
        THEN [eff |-> Effect(Returns(_validate_plugin_request(req)), 0, FALSE, FALSE),
              ex |-> ex, probes |-> 0]
        ELSE IF ~fetch
        THEN [eff |-> Effect(Returns(Err(Text(<<"Error", "extracting", "series", "data",
                                                "for", "file">>, 1))), 0, FALSE, FALSE),
              ex |-> ex, probes |-> 0]
        ELSE IF got.how = "raises"
        THEN [eff |-> Effect(Returns(Err(Text(<<>>, 1))), 0, FALSE, FALSE),
              ex |-> ex, probes |-> 1]
        ELSE LET e == ExecuteWithPairs(got.v, code)
             IN  [eff |-> [e EXCEPT !.ret = IF e.ret.how = "raises"
                                             THEN Returns(Err(missing))
                                             ELSE e.ret],
                  ex |-> got.v, probes |-> IF ex.constructed THEN 0 ELSE 1]

-----------------------------------------------------------------------------
(* The remote function executor.  This revision of the engine has no code  *)
(* for it (execute knows the container and the in-process path only); it   *)
(* is modelled from the specification and from the engine's tests:         *)
(* one synchronous invoke per call, whose outcome is the function's        *)
(* document, a platform-reported function error, or an exception of the    *)
(* transport.                                                              *)

PlatformError ==
    PyDict([errorMessage |-> Text(<<"Lambda", "error">>, 1),
            stackTrace |-> Text(<<"Traceback">>, 1)])

Responses ==
    { [kind |-> "ok", payload |-> d] : d \in {DocResults, DocError} }
    \cup { [kind |-> "function_error", payload |-> PlatformError],
           [kind |-> "exception", payload |-> PyOther("None")] }

NoResponse == [kind |-> "none", payload |-> PyOther("None")]

\* The remote executor echoing the platform's payload to the caller.
_execute_in_lambda_leaks(code, pairs, response) ==
    CASE response.kind = "exception" ->
            Returns(Err(Text(<<"Lambda", "invocation", "error", ":">>, 1)))
      [] OTHER -> Returns(response.payload)

_execute_in_lambda(code, pairs, response) ==
    CASE response.kind = "exception" ->
            Returns(Err(Text(<<"Lambda", "invocation", "error", ":">>, 1)))
      [] response.kind = "function_error" ->
            Returns(Err(Text(<<"Lambda", "execution", "failed">>, 0)))
      [] OTHER -> Returns(response.payload)

-----------------------------------------------------------------------------
(* The state machine.  One action is one whole call of an entry point; the *)
(* call record keeps its inputs, its result and its effects until the      *)
(* caller has taken the result (Return).                                   *)

ProbesFor(ex) == IF ex.constructed THEN {"rc0"} ELSE Probes

Call(op, code, pairs, env, probe, eff, probes, evaluated) ==
    [op |-> op, code |-> code, pairs |-> pairs, env |-> env, probe |-> probe,
     ret |-> eff.ret, runs |-> eff.runs, inproc |-> eff.inproc,
     tmp_left |-> eff.tmp_left, invokes |-> 0, probes |-> probes,
     evaluated |-> evaluated, docker_available |-> FALSE, req |-> "none",
     exit_status |-> 0,
     cmd |-> IF eff.runs > 0 THEN docker_cmd ELSE <<>>,
     before |-> {}, response |-> NoResponse,
     running |-> eff.runs > 0 /\ LeftRunning(env.boundary),
     commands |-> IF probes > 0 THEN ConstructionCommands(probe) ELSE <<>>,
     atexit |-> AtExit, trace |-> <<>>, removed |-> {}]

Idle ==
    Call("none", NoCode, <<>>, NoEnv, "rc0",
         Effect(Returns(PyOther("None")), 0, FALSE, FALSE), 0, 0)

\* os.environ as the engine's deployment sets it: with or without the name
\* of the remote function.
Environs == [PLUGIN_EXECUTOR_LAMBDA : BOOLEAN]

\* A container some other user of the docker host started.
ControlContainer == [by |-> "other", labels |-> {}]

NoInstance == [built |-> 0, current |-> 0]

\* The bookkeeping of `_executor = SandboxedExecutor()`: one more instance
\* exists and the global refers to it.
Assigned(inst) == [built |-> inst.built + 1, current |-> inst.built + 1]

\* The instances after a call that left the singleton ex behind.
After(ex) ==
    IF ~executor.constructed /\ ex.constructed THEN Assigned(instances) ELSE instances

ThreadIdle ==
    [pc |-> "idle", got |-> 0, env |-> NoEnv, path |-> 0,
     ret |-> Returns(PyOther("None"))]

AllIdle == \A t \in DOMAIN threads : threads[t] = ThreadIdle

Init ==
    /\ executor = NoExecutor
    /\ call = Idle
    /\ environ = [PLUGIN_EXECUTOR_LAMBDA |-> FALSE]
    /\ containers = {}
    /\ instances = NoInstance
    /\ threads = [t \in 1..NumThreads |-> ThreadIdle]
    /\ files = {}

\* get_executor() on its own, as the first request of a process does.
GetExecutor(probe) ==
    /\ call.op = "none"
    /\ LET got == get_executor(executor, probe)
       IN  /\ executor' = IF got.how = "returns" THEN got.v ELSE executor
           /\ instances' = After(executor')
           /\ call' = [Call("get_executor", NoCode, <<>>, NoEnv, probe,
                            Effect(IF got.how = "returns"
                                   THEN Returns(PyOther("SandboxedExecutor"))
                                   ELSE Raises("OSError"), 0, FALSE, FALSE),
                            IF executor.constructed THEN 0 ELSE 1, 0)
                       EXCEPT !.docker_available = executor'.docker_available,
                              !.before = containers]
    /\ UNCHANGED <<environ, containers, threads, files>>

\* executor.execute(code, series1, series2) on the constructed engine.
Execute(code, env) ==
    /\ call.op = "none"
    /\ executor.constructed
    /\ call' = [Call("execute", code, <<>>, env, "rc0", execute(executor, code, env), 0, 0)
                EXCEPT !.docker_available = executor.docker_available]
    /\ UNCHANGED <<executor, environ, containers, instances, threads, files>>

\* executor.execute(code, pairs), as main.py and the engine's tests call it.
ExecutePairs(code, pairs) ==
    /\ call.op = "none"
    /\ executor.constructed
    /\ call' = [Call("execute_pairs", code, pairs, NoEnv, "rc0",
                     ExecuteWithPairs(executor, code), 0, 0)
                EXCEPT !.docker_available = executor.docker_available]
    /\ UNCHANGED <<executor, environ, containers, instances, threads, files>>

ExecutePluginCode(code, env, probe) ==
    /\ call.op = "none"
    /\ LET r == execute_plugin_code(executor, code, env, probe)
       IN  /\ executor' = r.ex
           /\ instances' = After(r.ex)
           /\ call' = [Call("execute_plugin_code", code, <<>>, env, probe, r.eff,
                            r.probes, 0)
                       EXCEPT !.docker_available = r.ex.docker_available,
                              !.before = containers]
    /\ UNCHANGED <<environ, containers, threads, files>>

ApiExecutePlugin(req, fetch, code, probe) ==
    /\ call.op = "none"
    /\ LET r == api_execute_plugin(executor, req, fetch, code, probe)
       IN  /\ executor' = r.ex
           /\ instances' = After(r.ex)
           /\ call' = [Call("api_execute_plugin", code, <<>>, NoEnv, probe, r.eff,
                            r.probes, 0)
                       EXCEPT !.docker_available = r.ex.docker_available,
                              !.req = IF fetch THEN req ELSE "fetch_fails",
                              !.before = containers]
    /\ UNCHANGED <<environ, containers, threads, files>>

\* POST /api/plugins/validate: validate_plugin_code(data["code"])
ValidatePluginCode(code) ==
    /\ call.op = "none"
    /\ call' = Call("validate_plugin_code", code, <<>>, NoEnv, "rc0",
                    Effect(Returns(PyDict(validate_plugin_code(code))), 0, FALSE, FALSE),
                    0, 0)
    /\ UNCHANGED <<executor, environ, containers, instances, threads, files>>

\* One call of the remote executor.
ExecuteInLambda(code, pairs, response) ==
    /\ call.op = "none"
    /\ call' = [Call("execute_in_lambda", code, pairs, NoEnv, "rc0",
                     Effect(_execute_in_lambda(code, pairs, response), 0, FALSE, FALSE),
                     0, 0)
                EXCEPT !.invokes = 1, !.response = response]
    /\ UNCHANGED <<executor, environ, containers, instances, threads, files>>

\* One invocation of the Lambda function.
Handler(code, pairs) ==
    /\ call.op = "none"
    /\ call' = [Call("handler", code, pairs, NoEnv, "rc0",
                     Effect(handler(code, pairs), 0, FALSE, FALSE), 0,
                     Evaluated(code, pairs))
                EXCEPT !.trace = HarnessTrace(code, pairs)]
    /\ UNCHANGED <<executor, environ, containers, instances, threads, files>>

\* One run of the script inside a container.
RunTemplate(code, calc) ==
    /\ call.op = "none"
    /\ LET t == executor_template(code, calc)
       IN  call' = [Call("template", code, <<>>, [NoEnv EXCEPT !.calc = calc], "rc0",
                         Effect(IF t.printed THEN Returns(t.doc) ELSE Raises("SystemExit"),
                                0, FALSE, FALSE), 0,
                         IF ExecOutcome(code) = "ok" THEN 1 ELSE 0)
                    EXCEPT !.exit_status = t.rc, !.trace = TemplateTrace(code)]
    /\ UNCHANGED <<executor, environ, containers, instances, threads, files>>

\* The caller takes the result.
Return ==
    /\ call.op # "none"
    /\ call' = Idle
    /\ UNCHANGED <<executor, environ, containers, instances, threads, files>>

\* A new call starts only when the previous one has been answered.
Next ==
    \/ /\ call.op = "none"
       /\ \E probe \in ProbesFor(executor) : GetExecutor(probe)
    \/ /\ call.op = "none"
       /\ executor.constructed
       /\ \E code \in Codes : \E env \in EnvsFor(executor) : Execute(code, env)
    \/ /\ call.op = "none"
       /\ executor.constructed
       /\ \E code \in {MinimalPlugin, ImportOsPlugin} : \E pairs \in Batches :
            ExecutePairs(code, pairs)
    \/ /\ call.op = "none"
       /\ \E code \in Codes : \E probe \in ProbesFor(executor) :
            \E env \in EnvsFor(IF executor.constructed THEN executor
                               ELSE [constructed |-> TRUE,
                                     docker_available |-> probe = "rc0"]) :
               ExecutePluginCode(code, env, probe)
    \/ /\ call.op = "none"
       /\ \E req \in Requests : \E fetch \in BOOLEAN : \E code \in Codes :
            \E probe \in ProbesFor(executor) : ApiExecutePlugin(req, fetch, code, probe)
    \/ /\ call.op = "none"
       /\ \E code \in Codes : ValidatePluginCode(code)
    \/ /\ call.op = "none"
       /\ \E code \in {MinimalPlugin, ImportOsPlugin} : \E pairs \in Batches :
            \E response \in Responses : ExecuteInLambda(code, pairs, response)
    \/ /\ call.op = "none"
       /\ \E code \in Codes : \E pairs \in Batches : Handler(code, pairs)
    \/ /\ call.op = "none"
       /\ \E code \in Codes : \E calc \in CalcKinds : RunTemplate(code, calc)
    \/ Return

Spec == Init /\ [][Next]_vars

-----------------------------------------------------------------------------
(* The life of the server process: its environment, the docker host it     *)
(* shares with others, its death in the middle of a batch, and the request *)
(* threads of one gunicorn worker (worker_class = "gthread") entering      *)
(* get_executor() side by side.                                            *)

\* The process is killed (SIGKILL, out of memory) while execute is blocked
\* in subprocess.run: the `docker run` client dies with it, the container
\* it created stays on the host, and the next process starts without an
\* engine.
Kill ==
    /\ call.op = "none"
    /\ AllIdle
    /\ executor.constructed
    /\ executor.docker_available
    /\ containers' = containers \cup {Container("engine", docker_cmd)}
    /\ executor' = NoExecutor
    /\ instances' = NoInstance
    /\ UNCHANGED <<call, environ, threads, files>>

\* Somebody else starts a container on the same host.
OtherStarts ==
    /\ call.op = "none"
    /\ ControlContainer \notin containers
    /\ containers' = containers \cup {ControlContainer}
    /\ UNCHANGED <<executor, call, environ, instances, threads, files>>

\* A container ends on its own.
ContainerExits(c) ==
    /\ call.op = "none"
    /\ c \in containers
    /\ containers' = containers \ {c}
    /\ UNCHANGED <<executor, call, environ, instances, threads, files>>

\* get_executor(), statement by statement, in thread t.
\* `if _executor is None:`
EnterGetExecutor(t) ==
    /\ call.op = "none"
    /\ threads[t].pc = "idle"
    /\ threads' = [threads EXCEPT ![t].pc = IF executor.constructed THEN "return"
                                              ELSE "construct"]
    /\ UNCHANGED <<executor, call, environ, containers, instances, files>>

\* `_executor = SandboxedExecutor()`: the probe is a subprocess the thread
\* waits for with the interpreter lock released.
Construct(t, probe) ==
    /\ call.op = "none"
    /\ threads[t].pc = "construct"
    /\ LET made == SandboxedExecutor(probe)
       IN  IF made.how = "returns"
           THEN /\ executor' = made.v
                /\ instances' = Assigned(instances)
                /\ threads' = [threads EXCEPT ![t].pc = "return"]
           ELSE /\ threads' = [threads EXCEPT ![t].pc = "raised"]
                /\ UNCHANGED <<executor, instances>>
    /\ UNCHANGED <<call, environ, containers, files>>

\* `return _executor`
ReturnExecutor(t) ==
    /\ call.op = "none"
    /\ threads[t].pc = "return"
    /\ threads' = [threads EXCEPT ![t].pc = "done", ![t].got = instances.current]
    /\ UNCHANGED <<executor, call, environ, containers, instances, files>>

\* The threads' requests are over.
Join ==
    /\ call.op = "none"
    /\ ~AllIdle
    /\ \A t \in DOMAIN threads : threads[t].pc \in {"idle", "done", "raised", "executed"}
    /\ threads' = [t \in DOMAIN threads |-> ThreadIdle]
    /\ UNCHANGED <<executor, call, environ, containers, instances, files>>

\* The calls the life cycle is observed with.
LifecycleEnvs(ex) ==
    { e \in EnvsFor(ex) :
        /\ e.host = HostOk
        /\ e.boundary.kind = "completed" => e.boundary.rc = 0 /\ e.boundary.stderr = 0 }

LifecycleInit ==
    /\ executor = NoExecutor
    /\ call = Idle
    /\ environ \in Environs
    /\ containers = {}
    /\ instances = NoInstance
    /\ threads = [t \in 1..NumThreads |-> ThreadIdle]
    /\ files = {}

LifecycleNext ==
    \/ /\ call.op = "none"
       /\ AllIdle
       /\ \E probe \in ProbesFor(executor) : GetExecutor(probe)
    \/ /\ call.op = "none"
       /\ AllIdle
       /\ executor.constructed
       /\ \E env \in LifecycleEnvs(executor) : Execute(MinimalPlugin, env)
    \/ Return
    \/ Kill
    \/ OtherStarts
    \/ \E c \in containers : ContainerExits(c)
    \/ \E t \in DOMAIN threads : EnterGetExecutor(t)
    \/ \E t \in DOMAIN threads : \E probe \in Probes : Construct(t, probe)
    \/ \E t \in DOMAIN threads : ReturnExecutor(t)
    \/ Join

Lifecycle == LifecycleInit /\ [][LifecycleNext]_vars

-----------------------------------------------------------------------------
(* Request threads of one worker inside execute() on the same engine in    *)
(* container mode, statement by statement.  subprocess.run and the file    *)
(* operations release the interpreter lock, so the threads interleave      *)
(* between any two of the steps.                                           *)

\* NamedTemporaryFile with the same name in every call.
NamedTemporaryFile_fixed(existing) == 1

\* tempfile.NamedTemporaryFile(delete=False): a new file under a name no
\* existing file has.
NamedTemporaryFile(existing) ==
    CHOOSE n \in 1..(Cardinality(existing) + 1) : n \notin existing

\* The calls the threads make.
ConcurrentEnvs(ex) ==
    { e \in EnvsFor(ex) :
        e.boundary.kind = "completed" =>
            \/ /\ e.boundary.rc = 0 /\ e.boundary.stderr = 0
               /\ e.boundary.stdout.shape = "json" /\ e.boundary.stdout.doc = DocResult
            \/ /\ e.boundary.rc = 1 /\ e.boundary.stderr = 5
               /\ e.boundary.stdout.shape = "empty" }

\* `if self.docker_available:` and the `with NamedTemporaryFile(...)` block
\* of _execute_in_docker.
BeginExecute(t, env) ==
    /\ call.op = "none"
    /\ threads[t].pc = "idle"
    /\ executor.constructed
    /\ executor.docker_available
    /\ env.host.unlink = "fails" => Cardinality(files) < MaxFiles
    /\ IF env.host.tmp_create = "fails"
       THEN /\ threads' = [threads EXCEPT ![t].pc = "executed", ![t].env = env,
                                          ![t].ret = Raises("OSError")]
            /\ UNCHANGED files
       ELSE /\ threads' = [threads EXCEPT ![t].pc = "created", ![t].env = env,
                                          ![t].path = NamedTemporaryFile(files)]
            /\ files' = files \cup {NamedTemporaryFile(files)}
    /\ UNCHANGED <<executor, call, environ, containers, instances>>

\* The try block: subprocess.run of docker_cmd, which mounts the thread's
\* file, and the return statements.  A mount whose source is gone makes
\* `python /executor.py` fail with a message on stderr.
RunContainer(t) ==
    /\ call.op = "none"
    /\ threads[t].pc = "created"
    /\ threads' = [threads EXCEPT
            ![t].pc = "ran",
            ![t].ret = IF threads[t].path \in files
                       THEN Returns(DockerBody(threads[t].env.boundary))
                       ELSE Returns(Err(Text(<<"Execution", "failed", ":">>, 50)))]
    /\ UNCHANGED <<executor, call, environ, containers, instances, files>>

\* The finally clause: os.unlink(executor_path); an exception raised here
\* replaces the return value.
Unlink(t) ==
    /\ call.op = "none"
    /\ threads[t].pc = "ran"
    /\ IF threads[t].path \notin files
       THEN /\ threads' = [threads EXCEPT ![t].pc = "executed",
                                          ![t].ret = Raises("FileNotFoundError")]
            /\ UNCHANGED files
       ELSE IF threads[t].env.host.unlink = "fails"
       THEN /\ threads' = [threads EXCEPT ![t].pc = "executed",
                                          ![t].ret = Raises("OSError")]
            /\ UNCHANGED files
       ELSE /\ threads' = [threads EXCEPT ![t].pc = "executed"]
            /\ files' = files \ {threads[t].path}
    /\ UNCHANGED <<executor, call, environ, containers, instances>>

ConcurrentNext ==
    \/ /\ call.op = "none"
       /\ AllIdle
       /\ \E probe \in ProbesFor(executor) : GetExecutor(probe)
    \/ Return
    \/ /\ call.op = "none"
       /\ executor.docker_available
       /\ \E t \in DOMAIN threads : \E env \in ConcurrentEnvs(executor) :
            BeginExecute(t, env)
    \/ \E t \in DOMAIN threads : RunContainer(t)
    \/ \E t \in DOMAIN threads : Unlink(t)
    \/ Join

Concurrent == Init /\ [][ConcurrentNext]_vars

-----------------------------------------------------------------------------
(* The worker processes of one deployment on one docker host:              *)
(* gunicorn_config.py starts workers = cpu_count * 2 + 1 processes and     *)
(* replaces each after max_requests requests, so engines are constructed   *)
(* while other workers have batches in flight.  The label and the sweep    *)
(* are those of the specification (this revision of the engine has         *)
(* neither): every container the engine spawns carries one fixed label,    *)
(* and the sweep lists the containers with that label and removes them.    *)

Workers == 1..NumWorkers

\* The fixed management label.
ManagedLabel == "plugin-executor"

\* docker_cmd of an engine that labels what it spawns.
labelled_cmd == docker_cmd \o << Opt("--label", ManagedLabel) >>

\* The container of a batch in flight in worker w.
InFlight(w) == Container("worker" \o ToString(w), labelled_cmd)

\* A labelled container whose process is dead.
Orphan == Container("engine", labelled_cmd)

\* What the sweep leaves on the host: `docker ps -q` filtered by the
\* label, then `docker rm -f` of everything listed.
_cleanup_stale_containers(existing) ==
    { c \in existing : ManagedLabel \notin c.labels }

\* Worker w starts a batch: its engine spawns a labelled container.
WorkerSpawns(w) ==
    /\ InFlight(w) \notin containers
    /\ containers' = containers \cup {InFlight(w)}
    /\ UNCHANGED <<executor, call, environ, instances, threads, files>>

\* The batch of worker w ends and --rm removes its container.
WorkerReturns(w) ==
    /\ InFlight(w) \in containers
    /\ containers' = containers \ {InFlight(w)}
    /\ UNCHANGED <<executor, call, environ, instances, threads, files>>

\* Worker w is killed in the middle of its batch: its container stays.
WorkerKilled(w) ==
    /\ InFlight(w) \in containers
    /\ containers' = (containers \ {InFlight(w)}) \cup {Orphan}
    /\ UNCHANGED <<executor, call, environ, instances, threads, files>>

\* Worker w, which has no batch in flight, constructs its engine (at start
\* or after being replaced) or terminates normally: the sweep runs.
Sweep(w) ==
    /\ call.op = "none"
    /\ InFlight(w) \notin containers
    /\ containers' = _cleanup_stale_containers(containers)
    /\ call' = [Idle EXCEPT !.op = "sweep", !.before = containers,
                            !.removed = containers \ _cleanup_stale_containers(containers)]
    /\ UNCHANGED <<executor, environ, instances, threads, files>>

FleetNext ==
    \/ \E w \in Workers : WorkerSpawns(w)
    \/ \E w \in Workers : WorkerReturns(w)
    \/ \E w \in Workers : WorkerKilled(w)
    \/ \E w \in Workers : Sweep(w)
    \/ OtherStarts
    \/ \E c \in containers : ContainerExits(c)
    \/ Return

Fleet == Init /\ [][FleetNext]_vars

-----------------------------------------------------------------------------
(* Shapes of responses *)

Returned == call.ret.how = "returns"

\* {"error": <string>} and nothing else
ErrorOnly(v) == IsDict(v) /\ DOMAIN v.d = {"error"}

\* {"results": <list>} and nothing else
ResultsOnly(v) == IsDict(v) /\ DOMAIN v.d = {"results"}

BatchResponse(v) == ErrorOnly(v) \/ ResultsOnly(v)

ErrorSays(v, pat) == ErrorOnly(v) /\ Contains(v.d.error, pat)

\* A call of the engine's execute, directly or through the service layer.
EngineCall == call.op \in {"execute", "execute_plugin_code", "api_execute_plugin"}

\* execute itself was entered (the service layer did not return before it).
ExecuteEntered ==
    \/ call.op = "execute"
    \/ /\ call.op = "execute_plugin_code"
       /\ validate_plugin_code(call.code).valid
       /\ ~(call.probes = 1 /\ call.probe = "other_exception")

DisabledMode == ~call.docker_available

-----------------------------------------------------------------------------
(* C1: plugin source is never evaluated in the server process; in disabled *)
(* mode (probe failed, no remote target) execute has no in-process         *)
(* fallback.  The code has one: execute -> _execute_restricted ->          *)
(* exec(...), so this fails.                                               *)

C1_NeverEvaluatedInProcess == EngineCall => ~call.inproc

(* C2: in disabled mode every execute call, for any code and input,        *)
(* returns the same error-only response saying 'unavailable' and starts no *)
(* subprocess.  The code answers with the result of the in-process run.    *)

C2_DisabledAlwaysUnavailable ==
    (ExecuteEntered /\ DisabledMode) =>
        /\ Returned
        /\ ErrorSays(call.ret.v, <<"unavailable">>)
        /\ call.runs = 0

(* C3: a request to execute code the validator rejects is answered with    *)
(* the validation error, and no container is started and no remote         *)
(* function invoked during the call.  Holds of execute_plugin_code; the    *)
(* HTTP route hands the code to the engine without validating it.          *)

C3_ValidationPrecedesIsolation ==
    (/\ call.op \in {"execute_plugin_code", "api_execute_plugin"}
     /\ call.op = "api_execute_plugin" => call.req = "ok"
     /\ ~validate_plugin_code(call.code).valid) =>
        /\ call.ret = Returns(Err(validate_plugin_code(call.code).error))
        /\ call.runs = 0
        /\ call.invokes = 0

-----------------------------------------------------------------------------
(* The run harness *)

HarnessResults ==
    call.op = "handler" /\ Returned /\ HasKey(call.ret.v, "results")

\* calculate raises on this pair (an Exception or any other BaseException)
Fails(pair) == pair.calc \in {"raise", "exit"}

(* C4, as claimed: every batch of N pairs whose code validates is answered *)
(* with a results list of N entries in input order.  Fails: code that      *)
(* validates can still raise when evaluated or leave calculate unbound,    *)
(* and the harness then answers with a batch-level error.                  *)

C5_PerPairErrorIsolation ==
    (call.op = "handler" /\ ExecOutcome(call.code) = "ok") =>
        /\ HarnessResults
        /\ Len(call.ret.v.d.results) = Len(call.pairs)
        /\ call.evaluated = Len(call.pairs)
        /\ \A i \in 1..Len(call.pairs) :
              LET e == call.ret.v.d.results[i]
              IN  /\ e.key = call.pairs[i].key
                  /\ Fails(call.pairs[i]) <=> DOMAIN e = {"key", "error"}
                  /\ ~Fails(call.pairs[i]) =>
                        e = handler(call.code, <<call.pairs[i]>>).v.d.results[1]

(* C6: every entry of a results list carries a key and exactly one of      *)
(* 'result' and 'error', whatever calculate returned or raised; the        *)
(* container script's single document likewise has exactly one of the two. *)

C6_ExactlyOneOfResultError ==
    /\ HarnessResults =>
          \A i \in 1..Len(call.ret.v.d.results) :
              LET e == call.ret.v.d.results[i]
              IN  /\ "key" \in DOMAIN e
                  /\ ("result" \in DOMAIN e) # ("error" \in DOMAIN e)
    /\ (call.op = "template" /\ Returned) =>
          HasKey(call.ret.v, "result") # HasKey(call.ret.v, "error")

\* a results list with an entry for a non-number and an entry for a raise
C6_Witness ==
    /\ HarnessResults
    /\ Len(call.pairs) = 2
    /\ call.pairs[1].calc = "str"
    /\ call.pairs[2].calc = "raise"
    /\ "result" \in DOMAIN call.ret.v.d.results[1]
    /\ "error" \in DOMAIN call.ret.v.d.results[2]

-----------------------------------------------------------------------------
(* The container path *)

\* execute reached subprocess.run of `docker run`
Spawned == ExecuteEntered /\ call.docker_available /\ call.runs = 1

Completed == Spawned /\ call.env.boundary.kind = "completed"

(* C7: execute always ends in a returned value and never raises: an        *)
(* unexpected exception from the subprocess gives an error saying          *)
(* 'Internal execution error', and failures creating or removing the       *)
(* per-call temporary file do not escape.  Fails: the temporary file is    *)
(* created before the try block and removed in its finally clause, and the *)
(* catch-all's message is 'Execution error: ...'.  (SandboxedExecutor has  *)
(* no remote path, so the 'Lambda invocation error' part has no code;      *)
(* stated here for container mode, disabled mode being C1's subject.)      *)

C7_ExecuteNeverRaises ==
    (ExecuteEntered /\ call.docker_available) =>
        /\ Returned
        /\ (Spawned /\ call.env.boundary.kind = "exception") =>
              ErrorSays(call.ret.v, <<"Internal", "execution", "error">>)

(* C8: when the boundary does not finish within the timeout, execute       *)
(* returns an error-only response saying 'timed out', with no results.     *)
(* The except clause does return that, but the finally clause then removes *)
(* the temporary file, and if that fails execute raises instead (C7).      *)

C8_TimeoutReturnsTimedOut ==
    (Spawned /\ call.env.boundary.kind = "timeout") =>
        /\ Returned
        /\ ErrorSays(call.ret.v, <<"timed", "out">>)
        /\ ~HasKey(call.ret.v, "results")

(* C9: whenever the boundary exits non-zero, execute returns an error-only *)
(* response saying 'Execution failed', whatever was written to stdout and  *)
(* stderr (an empty stderr included), echoing at most 200 characters of    *)
(* stderr.  Fails: with an empty stderr the code goes on to parse stdout.  *)

C9_NonZeroExitIsExecutionFailed ==
    (Completed /\ call.env.boundary.rc # 0) =>
        /\ Returned
        /\ ErrorSays(call.ret.v, <<"Execution", "failed">>)
        /\ call.ret.v.d.error.embedded <= ExcerptLimit

(* C10: on zero exit execute returns stdout parsed and unchanged only if   *)
(* it is one JSON document of BatchResponse shape; anything else gives an  *)
(* error saying 'Invalid output'; so every value execute returns is a      *)
(* BatchResponse.  Fails: any JSON document is returned as parsed, and the *)
(* messages are 'No output from plugin' and 'Invalid plugin output: ...'.  *)

C10_ZeroExitOutputIsBatchResponse ==
    /\ (Completed /\ call.env.boundary.rc = 0) =>
          /\ Returned
          /\ IF /\ call.env.boundary.stdout.shape = "json"
                /\ BatchResponse(call.env.boundary.stdout.doc)
             THEN call.ret.v = call.env.boundary.stdout.doc
             ELSE ErrorSays(call.ret.v, <<"Invalid", "output">>)
    /\ (ExecuteEntered /\ call.docker_available /\ Returned) => BatchResponse(call.ret.v)

-----------------------------------------------------------------------------
(* Isolation settings of a spawn *)

Options(cmd) == { cmd[i] : i \in DOMAIN cmd }

HasOpt(cmd, o) == \E f \in Options(cmd) : f.opt = o /\ f.val # ""

NoNetwork(cmd) == Opt("--network", "none") \in Options(cmd)
ReadOnlyRoot(cmd) == Opt("--read-only", "") \in Options(cmd)
MemoryCeiling(cmd) == HasOpt(cmd, "--memory")
CpuCeiling(cmd) == HasOpt(cmd, "--cpus")
ProcessCap(cmd) == HasOpt(cmd, "--pids-limit")
CapabilitiesDropped(cmd) == Opt("--cap-drop", "ALL") \in Options(cmd)
NonRootUser(cmd) ==
    \E f \in Options(cmd) : f.opt \in {"--user", "-u"} /\ f.val \notin {"", "0", "root"}
NoNewPrivileges(cmd) == Opt("--security-opt", "no-new-privileges") \in Options(cmd)

(* C11: every container the engine spawns carries all eight isolation      *)
(* settings at once: no network, read-only root, memory ceiling, CPU       *)
(* ceiling, process cap, all capabilities dropped, non-root user, no new   *)
(* privileges.  docker_cmd has six of them: it neither drops capabilities  *)
(* nor names a user.                                                       *)

C11_AllIsolationSettings ==
    call.runs > 0 =>
        /\ NoNetwork(call.cmd)
        /\ ReadOnlyRoot(call.cmd)
        /\ MemoryCeiling(call.cmd)
        /\ CpuCeiling(call.cmd)
        /\ ProcessCap(call.cmd)
        /\ CapabilitiesDropped(call.cmd)
        /\ NonRootUser(call.cmd)
        /\ NoNewPrivileges(call.cmd)

-----------------------------------------------------------------------------
(* Construction *)

\* This call ran the constructor and left an engine in container mode.
ConstructedContainerMode ==
    /\ call.op # "none"
    /\ call.probes = 1
    /\ executor.constructed
    /\ executor.docker_available

(* C12: once a new engine has been constructed in container mode, no       *)
(* container a killed engine left behind exists any more, and every        *)
(* container without the management label that existed before the          *)
(* construction still exists.  The constructor only probes: nothing is     *)
(* labelled at creation and nothing is swept.                              *)

C12_CrashRecovery ==
    ConstructedContainerMode =>
        /\ \A c \in containers : c.by # "engine"
        /\ \A c \in call.before : c.labels = {} => c \in containers

(* C13: with PLUGIN_EXECUTOR_LAMBDA in the environment the engine is in    *)
(* remote mode for its lifetime: the docker probe is never issued,         *)
(* docker_available is false, and every execute call is one remote invoke. *)
(* The constructor never reads the environment.                            *)

C13_RemoteModeWhenConfigured ==
    environ.PLUGIN_EXECUTOR_LAMBDA =>
        /\ call.probes = 0
        /\ ~executor.docker_available
        /\ call.op = "execute" =>
              call.invokes = 1 /\ call.runs = 0 /\ ~call.inproc

(* C14: without a remote identifier, construction always completes and     *)
(* sets container mode exactly when `docker version` exits with status 0;  *)
(* a non-zero status, a timeout, a missing binary and any other exception  *)
(* of the probe give disabled mode.  The probe catches TimeoutExpired and  *)
(* FileNotFoundError only; anything else leaves the constructor.           *)

C14_ConstructionNeverRaises ==
    (call.op = "get_executor" /\ call.probes = 1 /\ ~environ.PLUGIN_EXECUTOR_LAMBDA) =>
        /\ Returned
        /\ executor.constructed
        /\ executor.docker_available <=> call.probe = "rc0"

-----------------------------------------------------------------------------
(* Batches *)

(* C15: in container mode execute(code, []) returns exactly {results: []}  *)
(* and spawns no container.  execute takes (code, series1, series2): the   *)
(* call raises TypeError.                                                  *)

C15_EmptyPairsShortCircuit ==
    (call.op = "execute_pairs" /\ call.docker_available /\ call.pairs = <<>>) =>
        /\ call.ret = Returns(PyDict([results |-> <<>>]))
        /\ call.runs = 0

(* C16: one execute call makes at most one backend attempt, whatever the   *)
(* number of pairs and whatever the outcome: at most one container spawn   *)
(* (and no remote invoke) by the engine, exactly one invoke (and no spawn) *)
(* by the remote executor; a failed or timed-out batch is not retried.     *)

-----------------------------------------------------------------------------
(* The validator *)

Validated == call.op = "validate_plugin_code"

(* C17: for any source that contains a denylisted pattern in any letter    *)
(* case, validate_plugin_code answers valid = false with a non-empty error *)
(* saying 'Forbidden pattern'; the minimal plugin                          *)
(* 'def calculate(series1, series2): return 0' gets exactly {valid: true}. *)

C17_DenylistRejects ==
    /\ (Validated /\ call.code.pats # {}) =>
          /\ call.ret.v.d.valid = FALSE
          /\ "error" \in DOMAIN call.ret.v.d
          /\ call.ret.v.d.error.words # <<>>
          /\ Contains(call.ret.v.d.error, <<"Forbidden", "pattern">>)
    /\ (Validated /\ call.code = MinimalPlugin) =>
          call.ret.v = PyDict([valid |-> TRUE])

\* 'IMPORT OS' in a plugin that is fine otherwise: rejected for "import os"
C17_Witness ==
    /\ Validated
    /\ call.code.pats = {5}
    /\ call.code.verbatim = {}
    /\ call.code.hasDef
    /\ Compiles(call.code)
    /\ call.ret.v.d.valid = FALSE
    /\ Contains(call.ret.v.d.error, <<"Forbidden", "pattern", "detected", ":", "import os">>)

\* The source is a valid plugin once dedented and stripped.
ValidWhenNormalized(code) == code.pats = {} /\ code.hasDef /\ code.parses

(* C18: validate_plugin_code dedents and strips the source before it looks *)
(* at it: a plugin that is valid apart from a common indentation of its    *)
(* lines is accepted with {valid: true}, and execute_plugin_code hands it  *)
(* on to the executor.  The code compiles the text as it arrives, and      *)
(* compile() rejects an indented first statement.                          *)

C18_IndentationNormalized ==
    /\ (Validated /\ ValidWhenNormalized(call.code)) =>
          call.ret.v = PyDict([valid |-> TRUE])
    /\ (call.op = "execute_plugin_code" /\ ValidWhenNormalized(call.code)) =>
          /\ validate_plugin_code(call.code).valid
          /\ call.probes = 1 \/ executor.constructed

-----------------------------------------------------------------------------
(* The remote executor *)

(* C19: when the platform reports a function-level failure (FunctionError  *)
(* in the invoke response), the remote executor returns an error-only      *)
(* response saying 'Lambda execution failed', with nothing of the          *)
(* platform's payload in it.                                               *)

-----------------------------------------------------------------------------
(* The singleton *)

(* C20: get_executor returns the same instance on every call within a      *)
(* process and the constructor runs at most once per process, also when    *)
(* the first calls come from several request threads at once.  Nothing     *)
(* orders the test `_executor is None` of one thread after the assignment  *)
(* of another.                                                             *)

C20_OneInstancePerProcess ==
    /\ instances.built <= 1
    /\ \A t, u \in DOMAIN threads :
          threads[t].pc = "done" /\ threads[u].pc = "done" =>
              threads[t].got = threads[u].got

-----------------------------------------------------------------------------
(* C22: validate_plugin_code applies its checks in a fixed order and       *)
(* reports the first that fails: a source with a denylist pattern gets     *)
(* 'Forbidden pattern' naming the first matching pattern in list order,    *)
(* whether or not it defines calculate or parses; a pattern-free source    *)
(* without 'def calculate(' gets 'must define'; only a source passing both *)
(* gets 'Syntax error' when it does not compile.                           *)

FirstListed(code) ==
    dangerous_patterns[CHOOSE i \in code.pats : \A j \in code.pats : i <= j]

C22_ChecksInOrder ==
    Validated =>
        LET v == call.ret.v.d
            forbidden == ~v.valid /\ Contains(v.error, <<"Forbidden", "pattern">>)
            undefined == ~v.valid /\ Contains(v.error, <<"must", "define">>)
            syntax == ~v.valid /\ Contains(v.error, <<"Syntax", "error">>)
        IN  /\ call.code.pats # {} =>
                /\ forbidden /\ ~undefined /\ ~syntax
                /\ Contains(v.error, <<"detected", ":", FirstListed(call.code)>>)
            /\ (call.code.pats = {} /\ ~call.code.hasDef) =>
                undefined /\ ~forbidden /\ ~syntax
            /\ (call.code.pats = {} /\ call.code.hasDef /\ ~Compiles(call.code)) =>
                syntax /\ ~forbidden /\ ~undefined
            /\ (call.code.pats = {} /\ call.code.hasDef /\ Compiles(call.code)) =>
                v.valid

\* A source with two denylist patterns, no calculate and a syntax error
\* was validated and the answer names the first pattern.
C22_Witness ==
    /\ Validated
    /\ call.code.pats = {1, 4}
    /\ ~call.code.hasDef
    /\ ~call.code.parses
    /\ Contains(call.ret.v.d.error, <<"detected", ":", dangerous_patterns[1]>>)

-----------------------------------------------------------------------------
(* C21: whenever execute returns, with results, with an error-only         *)
(* response or after a timeout, no container spawned by that call is still *)
(* running.  The TimeoutExpired clause returns its message without killing *)
(* the container, so after a timeout the container can outlive the call.   *)

C21_NoContainerOutlivesCall ==
    (ExecuteEntered /\ Spawned /\ Returned) => ~call.running

-----------------------------------------------------------------------------
(* C23: the run harness evaluates the plugin source exactly once per       *)
(* batch, before any pair, and calls the calculate it bound for every      *)
(* pair; when the source leaves calculate unbound the answer is a          *)
(* batch-level error saying the plugin must define calculate, and no pair  *)
(* is evaluated.                                                           *)

HarnessCall == call.op \in {"handler", "template"}

C23_SourceEvaluatedOnce ==
    HarnessCall =>
        /\ Len(call.trace) >= 1
        /\ call.trace[1] = "exec"
        /\ \A i \in 2..Len(call.trace) : call.trace[i] = "calculate"
        /\ Len(call.trace) = 1 + call.evaluated
        /\ (call.op = "handler" /\ HarnessResults) =>
              call.evaluated = Len(call.pairs)
        /\ ExecOutcome(call.code) = "unbound" =>
              /\ call.trace = <<"exec">>
              /\ call.evaluated = 0
              /\ Returned
              /\ ErrorSays(call.ret.v, <<"must", "define", "calculate">>)

\* A batch of two pairs ran: one evaluation of the source, two calls.
C23_Witness ==
    /\ call.op = "handler"
    /\ Len(call.pairs) = 2
    /\ HarnessResults
    /\ call.trace = <<"exec", "calculate", "calculate">>

-----------------------------------------------------------------------------
(* C24: on every path the script run inside the container writes exactly   *)
(* one JSON document to standard output: {results: [...]} with exit status *)
(* 0 when the batch ran, or {error: ...} with a non-zero exit status on a  *)
(* top-level failure; no path ends without output.  The script prints      *)
(* {result: x} for its one pair, and a plugin that raises SystemExit ends  *)
(* it with nothing printed.                                                *)

C24_OneDocumentOnEveryPath ==
    call.op = "template" =>
        /\ Returned
        /\ \/ ResultsOnly(call.ret.v) /\ call.exit_status = 0
           \/ ErrorOnly(call.ret.v) /\ call.exit_status # 0

-----------------------------------------------------------------------------
(* C25: every 'result' the harness records is a float: a return value of   *)
(* any numeric type (int, float, numpy integer, numpy floating) is         *)
(* recorded as a float, and a non-numeric return value is never recorded   *)
(* as a 'result'.  handler() converts numpy numbers only and appends       *)
(* whatever else calculate returned; the container script refuses numpy    *)
(* integers.                                                               *)

NumericKinds == {"int", "float", "npint", "npfloat"}

C25_ResultsAreFloats ==
    /\ HarnessResults =>
          \A i \in DOMAIN call.pairs :
              LET entry == call.ret.v.d.results[i]
                  calc == call.pairs[i].calc
              IN  /\ "result" \in DOMAIN entry => entry.result.type = "float"
                  /\ calc \in NumericKinds => "result" \in DOMAIN entry
                  /\ calc = "str" => "result" \notin DOMAIN entry
    /\ (call.op = "template" /\ ExecOutcome(call.code) = "ok") =>
          /\ (Returned /\ HasKey(call.ret.v, "result")) =>
                call.ret.v.d.result.type = "float"
          /\ call.env.calc \in NumericKinds =>
                Returned /\ HasKey(call.ret.v, "result")
          /\ call.env.calc = "str" => ~(Returned /\ HasKey(call.ret.v, "result"))

-----------------------------------------------------------------------------
(* C26: a harness response that is error-only implies calculate was        *)
(* invoked on no pair; and when at least one pair was evaluated the        *)
(* response has results with one entry per pair.  The container script     *)
(* answers {error} when calculate raised on its pair, and handler() gives  *)
(* no response at all when calculate raises SystemExit.                    *)

C26_ErrorOnlyMeansNothingEvaluated ==
    /\ (HarnessCall /\ Returned /\ ErrorOnly(call.ret.v)) => call.evaluated = 0
    /\ (call.op = "handler" /\ call.evaluated >= 1) =>
          /\ HarnessResults
          /\ Len(call.ret.v.d.results) = Len(call.pairs)

-----------------------------------------------------------------------------
(* C27: the stale-container sweep runs in container mode only: right after *)
(* a successful probe at construction, and registered to run at normal     *)
(* process termination; in disabled mode no list or remove command is      *)
(* issued.  The constructor issues the probe and nothing else, and nothing *)
(* is registered for termination.                                          *)

SweepCommand(c) == c[1] = "docker" /\ c[2] \in {"ps", "rm"}

C27_SweepInContainerModeOnly ==
    (call.op = "get_executor" /\ call.probes = 1 /\ Returned) =>
        LET swept == \E i \in DOMAIN call.commands :
                        /\ SweepCommand(call.commands[i])
                        /\ \E j \in 1..(i - 1) : call.commands[j] = <<"docker", "version">>
        IN  /\ call.docker_available =>
                swept /\ "_cleanup_stale_containers" \in call.atexit
            /\ ~call.docker_available =>
                /\ \A i \in DOMAIN call.commands : ~SweepCommand(call.commands[i])
                /\ call.atexit = {}

-----------------------------------------------------------------------------
(* C28: the batch reaches the container only on standard input: execute    *)
(* writes no file on the host, mounts no host path into the container, and *)
(* when it returns or raises no file it created is left.  The engine       *)
(* writes the script to a temporary file, mounts it with -v, and leaves it *)
(* behind when os.unlink fails.                                            *)

MountOptions == {"-v", "--volume", "--mount"}

C28_NothingOnTheHost ==
    (ExecuteEntered /\ call.docker_available) =>
        /\ \A i \in DOMAIN call.cmd : call.cmd[i].opt \notin MountOptions
        /\ ~call.tmp_left

-----------------------------------------------------------------------------
(* C29: concurrent execute calls on one engine in container mode are       *)
(* independent: each works on resources of its own, none modifies the      *)
(* engine's mode fields, and under every interleaving each call ends as it *)
(* would have ended alone.                                                 *)

InExecute(t) == threads[t].pc \in {"created", "ran", "executed"}

C29_ConcurrentCallsIndependent ==
    /\ \A t \in DOMAIN threads :
          threads[t].pc = "executed" =>
              threads[t].ret = execute(executor, MinimalPlugin, threads[t].env).ret
    /\ \A t \in DOMAIN threads :
          InExecute(t) => executor = [constructed |-> TRUE, docker_available |-> TRUE]
    /\ \A t1, t2 \in DOMAIN threads :
          (t1 # t2 /\ threads[t1].pc \in {"created", "ran"}
                   /\ threads[t2].pc \in {"created", "ran"}) =>
              threads[t1].path # threads[t2].path

\* Two calls overlapped (the second file was created while the first
\* existed); the first has returned its plugin's result, the second, whose
\* container timed out, is about to remove its own file.
C29_Witness ==
    /\ threads[1].pc = "executed"
    /\ threads[1].path = 1
    /\ threads[1].ret = Returns(DocResult)
    /\ threads[2].pc = "ran"
    /\ threads[2].path = 2
    /\ threads[2].env.boundary.kind = "timeout"
    /\ files = {2}

-----------------------------------------------------------------------------
(* C30: the label-based sweep of one engine instance never removes the     *)
(* container of a batch still in flight in another live engine instance on *)
(* the same host (another worker process); it removes only containers      *)
(* orphaned by a dead process.  The label is the same for every instance,  *)
(* so the sweep of a starting worker removes its neighbours' containers.   *)

====
